---- MODULE Spec2Model ----
(***************************************************************************)
(* Model of src/src/_utils.py: the hotkey-armed drag-to-capture flow       *)
(* (on_activate on the hotkey thread, on_click on the mouse-listener       *)
(* thread, capture_screenshot), the extension dispatch of Extract.extract  *)
(* and the two output sinks save_to_txt and save_to_clipboard.             *)
(*                                                                         *)
(* Strings are sequences of one-character strings, so that split('.'),     *)
(* lower() and Python truthiness are computed rather than assumed.         *)
(***************************************************************************)
EXTENDS Integers, Sequences, FiniteSets, TLC

VARIABLES
    macro_triggered,   \* global, _utils.py:58
    screenshot_taken,  \* global, _utils.py:57
    start_pos,         \* global, _utils.py:55 (None or <<x, y>>)
    end_pos,           \* global, _utils.py:56 (None or <<x, y>>)
    mpc,               \* position of the thread running on_click / a caller of the module
    hpc,               \* position of the hotkey thread inside on_activate
    stack,             \* return addresses of the calls in progress on the mpc thread
    rect,              \* <<left, top, width, height>> of on_click / capture_screenshot
    text,              \* the text argument / local of capture_screenshot and the sinks
    output_filename,   \* the output_filename argument of save_to_txt
    clipboard,         \* system clipboard contents
    files,             \* contents of the text files save_to_txt can write
    log,               \* last line written to the log
    exc,               \* last exception that escaped to the caller of the module
    ex_path,           \* last path handed to Extract.extract by a direct caller
    ex_called,         \* extractor that call invoked ("no call yet" before any call)
    ex_result,         \* the text that call returned
    ex_raised,         \* whether that call raised ValueError instead
    captures,          \* capture_screenshot invocations since screenshot_taken was last reset
    capture_done,      \* a capture has returned to on_click since the last activation began
    rearmed,           \* on_activate completed while the current capture was in progress
    pending            \* progress of the activation not yet consumed by a capture

vars == <<macro_triggered, screenshot_taken, start_pos, end_pos, mpc, hpc, stack,
          rect, text, output_filename, clipboard, files, log, exc,
          ex_path, ex_called, ex_result, ex_raised, captures, capture_done, rearmed, pending>>

globals == <<macro_triggered, screenshot_taken, start_pos, end_pos>>
extractVars == <<ex_path, ex_called, ex_result, ex_raised>>
ghosts == <<captures, capture_done, rearmed, pending>>

\* ---------------------------------------------------------------- bounds

\* Screen coordinates are 0..MaxCoord on both axes.
MaxCoord == 2
\* The capture counter saturates here (the claim is about exceeding 1).
MaxCaptures == 2

Coord == 0..MaxCoord
Buttons == {"left", "right"}

\* Python's None, for the variables that otherwise hold a tuple or a str
None == <<>>

\* ---------------------------------------------------------------- strings

UPPER == <<"A","B","C","D","E","F","G","H","I","J","K","L","M",
           "N","O","P","Q","R","S","T","U","V","W","X","Y","Z">>
LOWER == <<"a","b","c","d","e","f","g","h","i","j","k","l","m",
           "n","o","p","q","r","s","t","u","v","w","x","y","z">>

\* str.lower() on one character
LowerChar(c) ==
    IF \E i \in DOMAIN UPPER : UPPER[i] = c
    THEN LOWER[CHOOSE i \in DOMAIN UPPER : UPPER[i] = c]
    ELSE c

\* str.lower()
Lower(s) == [i \in DOMAIN s |-> LowerChar(s[i])]

\* s.split('.')[-1]: the characters after the last '.', the whole string when
\* it holds no '.'
RECURSIVE SplitLast(_)
SplitLast(s) ==
    IF s = <<>> THEN <<>>
    ELSE IF s[Len(s)] = "." THEN <<>>
    ELSE Append(SplitLast(SubSeq(s, 1, Len(s) - 1)), s[Len(s)])

\* Python truthiness of a str
TruthyStr(s) == Len(s) > 0

\* Python truthiness of start_pos / end_pos: None is false, a tuple is true
\* exactly when it is non-empty, whatever its items (so (0, 0) is true)
TruthyPos(p) == Len(p) > 0

\* ---------------------------------------------------------------- constants

VALID_FILE_EXTENTIONS ==
    { <<"p","d","f">>, <<"j","p","g">>, <<"p","n","g">>, <<"j","p","e","g">>,
      <<"t","i","f","f">>, <<"b","m","p">> }

\* str(IMAGE_FILE_PATH), relative to the working directory
IMAGE_FILE_PATH ==
    <<"a","s","s","e","t","s","/","s","c","r","e","e","n","s","h","o","t",".","p","n","g">>

EXTRACTED_TEXT_FILE_PATH == "assets/extracted_text.txt"
OTHER_TEXT_FILE_PATH == "notes.txt"
FileNames == {EXTRACTED_TEXT_FILE_PATH, OTHER_TEXT_FILE_PATH}

\* Texts an extractor (OCR, PDF) can yield; <<>> is the empty string, which is
\* also what both extractors return on failure.
Texts == { <<>>, <<"a">>, <<"b", "c">> }

\* ---------------------------------------------------------------- Extract.extract

\* file_extension = file_path.split('.')[-1].lower()
FileExtension(file_path) == Lower(SplitLast(file_path))

\* Extract.extract(file_path), given the text t the extractor it picks would
\* yield for that file (both extractors return "" when they fail).
\*   raised: the ValueError of line 137 leaves the function
\*   called: the extractor invoked, result: the returned text, logged: last log line
Extract_extract(file_path, t) ==
    LET file_extension == FileExtension(file_path) IN
    IF file_extension \notin VALID_FILE_EXTENTIONS
    THEN [raised |-> TRUE, called |-> "none", result |-> <<>>,
          logged |-> "WARNING Unsupported file type"]
    ELSE IF file_extension = <<"p","d","f">>
    THEN [raised |-> FALSE, called |-> "PDFProcessing",
          result |-> IF TruthyStr(t) THEN t ELSE <<>>,
          logged |-> IF TruthyStr(t) THEN "INFO Text saved to clipboard"
                     ELSE "ERROR Error extracting text"]
    ELSE IF file_extension \in VALID_FILE_EXTENTIONS
    THEN [raised |-> FALSE, called |-> "ImageProcessing",
          result |-> IF TruthyStr(t) THEN t ELSE <<>>,
          logged |-> IF TruthyStr(t) THEN "INFO Text saved to clipboard"
                     ELSE "ERROR Error extracting text"]
    ELSE [raised |-> FALSE, called |-> "none", result |-> <<>>,
          logged |-> "INFO Error extracting text"]

\* ---------------------------------------------------------------- rectangle

Min(a, b) == IF a < b THEN a ELSE b

AbsNoSign(n) == n

\* abs()
Abs(n) == IF n < 0 THEN -n ELSE n

\* <<left, top, width, height>> of on_click, lines 254-255
Rect(s, e) ==
    << Min(s[1], e[1]), Min(s[2], e[2]), Abs(e[1] - s[1]), Abs(e[2] - s[2]) >>

\* ---------------------------------------------------------------- calls

\* Where a return from the current function resumes: the caller's next line,
\* or "idle" when the function was entered from outside the module.
RetPc(st) == IF st = <<>> THEN "idle" ELSE Head(st)
RetStack(st) == IF st = <<>> THEN <<>> ELSE Tail(st)

\* capture_screenshot is executing (or a function it called is)
InCapture ==
    \/ mpc \in {"l213", "l217", "l218", "l221", "l222", "l224"}
    \/ mpc = "l193" /\ stack # <<>> /\ Head(stack) = "l224"

\* ---------------------------------------------------------------- initial state

Init ==
    /\ macro_triggered = FALSE
    /\ screenshot_taken = FALSE
    /\ start_pos = None
    /\ end_pos = None
    /\ mpc = "idle"
    /\ hpc = "idle"
    /\ stack = <<>>
    /\ rect = None
    /\ text = <<>>
    /\ output_filename = "none"
    /\ clipboard = <<"o", "l", "d">>
    /\ files = [f \in FileNames |-> None]
    /\ log = "none"
    /\ exc = "none"
    /\ ex_path = None
    /\ ex_called = "no call yet"
    /\ ex_result = <<>>
    /\ ex_raised = FALSE
    /\ captures = 0
    /\ capture_done = FALSE
    /\ rearmed = FALSE
    /\ pending = "none"

\* ---------------------------------------------------------------- hotkey thread

\* on_activate, line 271: macro_triggered = True.  The hotkey thread is a
\* daemon of the process main() runs: it ends with the mouse listener.
on_activate_271 ==
    /\ hpc = "idle"
    /\ mpc # "stopped"
    /\ macro_triggered' = TRUE
    /\ hpc' = "l272"
    /\ capture_done' = FALSE
    /\ UNCHANGED <<screenshot_taken, start_pos, end_pos, mpc, stack, rect, text,
                   output_filename, clipboard, files, log, exc, extractVars,
                   captures, rearmed, pending>>

\* on_activate, lines 272-273: screenshot_taken = False, then the log line.
on_activate_272 ==
    /\ hpc = "l272"
    /\ screenshot_taken' = FALSE
    /\ log' = "INFO Macro activated"
    /\ hpc' = "idle"
    /\ captures' = 0
    /\ rearmed' = (rearmed \/ InCapture)
    /\ pending' = "armed"
    /\ UNCHANGED <<macro_triggered, start_pos, end_pos, mpc, stack, rect, text,
                   output_filename, clipboard, files, exc, extractVars, capture_done>>

\* ---------------------------------------------------------------- mouse thread

\* on_click, lines 245-255: one mouse button transition delivered by the
\* listener.  start_pos, end_pos and the locals are touched by this thread
\* alone; macro_triggered is read once, at line 245.
on_click(x, y, button, pressed) ==
    /\ mpc = "idle"
    /\ IF ~macro_triggered
       THEN UNCHANGED <<start_pos, end_pos, mpc, rect, pending>>
       ELSE IF pressed /\ button = "left"
       THEN /\ start_pos' = <<x, y>>
            /\ pending' = IF pending = "armed" THEN "pressed" ELSE pending
            /\ UNCHANGED <<end_pos, mpc, rect>>
       ELSE IF ~pressed /\ button = "left"
       THEN /\ end_pos' = <<x, y>>
            /\ IF TruthyPos(start_pos) /\ TruthyPos(<<x, y>>)
               THEN /\ rect' = Rect(start_pos, <<x, y>>)
                    /\ mpc' = "l257"
               ELSE UNCHANGED <<mpc, rect>>
            /\ UNCHANGED <<start_pos, pending>>
       ELSE UNCHANGED <<start_pos, end_pos, mpc, rect, pending>>
    /\ UNCHANGED <<macro_triggered, screenshot_taken, hpc, stack, text,
                   output_filename, clipboard, files, log, exc, extractVars,
                   captures, capture_done, rearmed>>

on_click_257_unguarded ==
    /\ mpc = "l257"
    /\ mpc' = "l213"
    /\ stack' = <<"l259">>
    /\ captures' = IF captures < MaxCaptures THEN captures + 1 ELSE captures
    /\ rearmed' = FALSE
    /\ pending' = "none"
    /\ UNCHANGED rect
    /\ UNCHANGED <<globals, hpc, text, output_filename, clipboard, files, log,
                   exc, extractVars, capture_done>>

\* on_click, lines 257-258: the test of screenshot_taken and, when it is
\* false, the call of capture_screenshot(left, top, width, height).
on_click_257 ==
    /\ mpc = "l257"
    /\ IF ~screenshot_taken
       THEN /\ mpc' = "l213"
            /\ stack' = <<"l259">>
            /\ captures' = IF captures < MaxCaptures THEN captures + 1 ELSE captures
            /\ rearmed' = FALSE
            /\ pending' = "none"
            /\ UNCHANGED rect
       ELSE /\ mpc' = "idle"
            /\ rect' = None
            /\ UNCHANGED <<stack, captures, rearmed, pending>>
    /\ UNCHANGED <<globals, hpc, text, output_filename, clipboard, files, log,
                   exc, extractVars, capture_done>>

\* on_click, line 259: screenshot_taken = True, and on_click returns.
on_click_259 ==
    /\ mpc = "l259"
    /\ screenshot_taken' = TRUE
    /\ mpc' = "idle"
    /\ rect' = None
    /\ capture_done' = TRUE
    /\ rearmed' = FALSE
    /\ UNCHANGED <<macro_triggered, start_pos, end_pos, hpc, stack, text,
                   output_filename, clipboard, files, log, exc, extractVars,
                   captures, pending>>

\* ---------------------------------------------------------------- exceptions

\* An exception e that no handler of the module catches.  Under on_click (the
\* frame "l259" is on the stack) it leaves the listener callback: the mouse
\* listener stops and listener.join() re-raises in main(), which ends the
\* process.  Otherwise it reaches whoever called the module's function.
Propagate(e) ==
    /\ exc' = e
    /\ mpc' = IF \E i \in DOMAIN stack : stack[i] = "l259" THEN "stopped" ELSE "idle"
    /\ stack' = <<>>
    /\ rect' = None
    /\ text' = <<>>

\* capture_screenshot returns to the caller whose return addresses are st.
CaptureReturn(st) ==
    /\ mpc' = RetPc(st)
    /\ stack' = RetStack(st)
    /\ text' = <<>>
    /\ rect' = IF st = <<>> THEN None ELSE rect

\* capture_screenshot, lines 227-228: except Exception: logging.error(...)
CaptureExcept(st) ==
    /\ log' = "ERROR Error capturing screenshot"
    /\ CaptureReturn(st)

\* ---------------------------------------------------------------- capture_screenshot

\* line 213: os.makedirs(os.path.dirname(output_filename), exist_ok=True),
\* before the try block; the OS may refuse it.
capture_screenshot_213 ==
    /\ mpc = "l213"
    /\ \/ /\ mpc' = "l217"
          /\ UNCHANGED <<stack, rect, text, exc>>
       \/ Propagate("OSError")
    /\ UNCHANGED <<globals, hpc, output_filename, clipboard, files, log,
                   extractVars, ghosts>>

\* line 217: pyautogui.screenshot(region=(left, top, width, height)), for
\* whatever region it is given; the library may raise.
capture_screenshot_217 ==
    /\ mpc = "l217"
    /\ \/ /\ mpc' = "l218"
          /\ UNCHANGED <<stack, rect, text, log>>
       \/ CaptureExcept(stack)
    /\ UNCHANGED <<globals, hpc, output_filename, clipboard, files, exc,
                   extractVars, ghosts>>

\* lines 218-219: screenshot.save(output_filename) and the log line.
capture_screenshot_218 ==
    /\ mpc = "l218"
    /\ \/ /\ mpc' = "l221"
          /\ log' = "INFO Screenshot saved"
          /\ UNCHANGED <<stack, rect, text>>
       \/ CaptureExcept(stack)
    /\ UNCHANGED <<globals, hpc, output_filename, clipboard, files, exc,
                   extractVars, ghosts>>

\* line 221: text = Extract.extract(output_filename)
capture_screenshot_221 ==
    /\ mpc = "l221"
    /\ \E t \in Texts :
          LET r == Extract_extract(IMAGE_FILE_PATH, t) IN
          IF r.raised
          THEN CaptureExcept(stack)
          ELSE /\ text' = r.result
               /\ log' = r.logged
               /\ mpc' = "l222"
               /\ UNCHANGED <<stack, rect>>
    /\ UNCHANGED <<globals, hpc, output_filename, clipboard, files, exc,
                   extractVars, ghosts>>

\* lines 222-226: if text: save_to_clipboard(text) ... else: logging.error(...)
capture_screenshot_222 ==
    /\ mpc = "l222"
    /\ IF TruthyStr(text)
       THEN /\ mpc' = "l193"
            /\ stack' = <<"l224">> \o stack
            /\ UNCHANGED <<text, rect, log>>
       ELSE /\ log' = "ERROR No text extracted"
            /\ CaptureReturn(stack)
    /\ UNCHANGED <<globals, hpc, output_filename, clipboard, files, exc,
                   extractVars, ghosts>>

\* line 224: logging.info("Text saved to clipboard"), and the function returns.
capture_screenshot_224 ==
    /\ mpc = "l224"
    /\ log' = "INFO Text saved to clipboard"
    /\ CaptureReturn(stack)
    /\ UNCHANGED <<globals, hpc, output_filename, clipboard, files, exc,
                   extractVars, ghosts>>

\* ---------------------------------------------------------------- output sinks

\* A sink returns: to line 224 of capture_screenshot, or to its outside caller.
SinkReturn ==
    /\ mpc' = RetPc(stack)
    /\ stack' = RetStack(stack)
    /\ text' = IF stack = <<>> THEN <<>> ELSE text
    /\ UNCHANGED rect

save_to_clipboard_always ==
    /\ mpc = "l193"
    /\ clipboard' = text
    /\ log' = "INFO Text copied to clipboard."
    /\ SinkReturn
    /\ UNCHANGED <<globals, hpc, output_filename, files, exc, extractVars, ghosts>>

\* save_to_clipboard(text), lines 193-197; pyperclip.copy may raise, and
\* capture_screenshot calls it inside its try block.
save_to_clipboard ==
    /\ mpc = "l193"
    /\ IF TruthyStr(text)
       THEN \/ /\ clipboard' = text
               /\ log' = "INFO Text copied to clipboard."
               /\ SinkReturn
               /\ UNCHANGED exc
            \/ /\ IF stack # <<>> /\ Head(stack) = "l224"
                  THEN CaptureExcept(Tail(stack)) /\ UNCHANGED exc
                  ELSE Propagate("PyperclipException") /\ UNCHANGED log
               /\ UNCHANGED clipboard
       ELSE /\ log' = "WARNING No text to copy to clipboard."
            /\ SinkReturn
            /\ UNCHANGED <<clipboard, exc>>
    /\ UNCHANGED <<globals, hpc, output_filename, files, extractVars, ghosts>>

\* save_to_txt(text, output_filename), lines 176-183; open() may raise, and
\* nothing in the function catches it.
save_to_txt ==
    /\ mpc = "l176"
    /\ IF TruthyStr(text)
       THEN \/ /\ files' = [files EXCEPT ![output_filename] = text]
               /\ log' = "INFO Text saved to file"
               /\ SinkReturn
               /\ UNCHANGED exc
            \/ /\ Propagate("OSError")
               /\ UNCHANGED <<files, log>>
       ELSE /\ log' = "WARNING No text to save to file."
            /\ SinkReturn
            /\ UNCHANGED <<files, exc>>
    /\ output_filename' = "none"
    /\ UNCHANGED <<globals, hpc, clipboard, extractVars, ghosts>>

\* ---------------------------------------------------------------- direct callers

\* A caller outside the module invokes save_to_txt(t, f).
call_save_to_txt(t, f) ==
    /\ mpc = "idle"
    /\ mpc' = "l176"
    /\ text' = t
    /\ output_filename' = f
    /\ exc' = "none"
    /\ UNCHANGED <<globals, hpc, stack, rect, clipboard, files, log,
                   extractVars, ghosts>>

\* A caller outside the module invokes save_to_clipboard(t).
call_save_to_clipboard(t) ==
    /\ mpc = "idle"
    /\ mpc' = "l193"
    /\ text' = t
    /\ exc' = "none"
    /\ UNCHANGED <<globals, hpc, stack, rect, output_filename, clipboard, files,
                   log, extractVars, ghosts>>

\* A caller outside the module invokes capture_screenshot(left, top, width, height).
call_capture_screenshot(left, top, width, height) ==
    /\ mpc = "idle"
    /\ mpc' = "l213"
    /\ rect' = <<left, top, width, height>>
    /\ exc' = "none"
    /\ UNCHANGED <<globals, hpc, stack, text, output_filename, clipboard, files,
                   log, extractVars, ghosts>>

\* Paths handed to Extract.extract: a directory/stem part followed by a last
\* word, so that the last '.' may be absent, in the stem, or before the word.
PathStems ==
    { <<>>, <<"a", ".">>, <<"a", ".", "b", ".">>, <<"a", ".", "b", "/">>, <<"a", "/">> }
PathWords ==
    { <<>>, <<"p","d","f">>, <<"P","D","F">>, <<"P","d","F">>,
      <<"j","p","g">>, <<"J","P","G">>, <<"p","n","g">>, <<"P","n","g">>,
      <<"j","p","e","g">>, <<"J","p","E","G">>, <<"t","i","f","f">>, <<"T","I","F","F">>,
      <<"b","m","p">>, <<"B","M","P">>, <<"z","i","p">>, <<"p","d","f","x">>,
      <<"t","x","t">> }
Paths == { st \o w : st \in PathStems, w \in PathWords }

\* A caller outside the module invokes Extract.extract(file_path); t is what
\* the extractor chosen for the file yields.
call_Extract_extract(file_path, t) ==
    LET r == Extract_extract(file_path, t) IN
    /\ mpc = "idle"
    /\ ex_path' = file_path
    /\ ex_called' = r.called
    /\ ex_result' = r.result
    /\ ex_raised' = r.raised
    /\ log' = r.logged
    /\ exc' = IF r.raised THEN "ValueError" ELSE "none"
    /\ UNCHANGED <<globals, mpc, hpc, stack, rect, text, output_filename,
                   clipboard, files, ghosts>>

\* ---------------------------------------------------------------- specifications

capture_screenshot ==
    \/ capture_screenshot_213
    \/ capture_screenshot_217
    \/ capture_screenshot_218
    \/ capture_screenshot_221
    \/ capture_screenshot_222
    \/ capture_screenshot_224

\* main(): the hotkey thread and the mouse listener.
Next ==
    \/ on_activate_271
    \/ on_activate_272
    \/ \E x \in Coord, y \in Coord, button \in Buttons, pressed \in BOOLEAN :
          on_click(x, y, button, pressed)
    \/ on_click_257
    \/ on_click_259
    \/ capture_screenshot
    \/ save_to_clipboard

Spec == Init /\ [][Next]_vars

\* The module's functions called directly, one call at a time.
NextSink ==
    \/ \E t \in Texts, f \in FileNames : call_save_to_txt(t, f)
    \/ \E t \in Texts : call_save_to_clipboard(t)
    \/ \E l \in Coord, t \in Coord, w \in Coord, h \in Coord :
          call_capture_screenshot(l, t, w, h)
    \/ save_to_txt
    \/ save_to_clipboard
    \/ capture_screenshot

SpecSink == Init /\ [][NextSink]_vars

NextExtract ==
    \E file_path \in Paths, t \in Texts : call_Extract_extract(file_path, t)

SpecExtract == Init /\ [][NextExtract]_vars

\* ---------------------------------------------------------------- properties

\* C1: between two resets of screenshot_taken by on_activate (and after the
\* last one) capture_screenshot is invoked at most once, however many mouse
\* events arrive and however the capture ends.  An activation is counted
\* where it takes effect on the completed-capture flag, at line 272.
C1_AtMostOneCapturePerCycle == captures <= 1

\* A further left-button release is being tested against the flag after the
\* cycle's capture has completed.
C1_Witness == captures = 1 /\ screenshot_taken /\ mpc = "l257" /\ capture_done

\* C2: no failure inside capture_screenshot leaves it as an exception: nothing
\* escapes to on_click, so the mouse listener is never stopped by one.
C2_FailuresContained == exc = "none" /\ mpc # "stopped"

\* C3: once a capture has completed and until the next hotkey activation
\* begins, the armed flag macro_triggered is false.
C3_DisarmedAfterCapture == capture_done => ~macro_triggered

\* C4: when on_click returns from a left-button release that found both
\* points present (it went on to line 257), start_pos is None again, so that
\* no later release can pair with this drag's press.
C4_StartClearedAfterDrag ==
    [][ (mpc \in {"l257", "l259"} /\ mpc' = "idle") => start_pos' = None ]_vars

\* C5: while capture_screenshot is in progress on the mouse thread, the hotkey
\* thread has not completed an on_activate (armed flag set, completed-capture
\* flag reset) for a new cycle.
C5_NoRearmDuringCapture == ~(InCapture /\ rearmed)

\* C6: with a rectangle of zero width or zero height the capturer is not
\* invoked, or it is invoked and goes neither to the screenshot call nor to
\* anything after it.
C6_ZeroAreaTolerated ==
    (rect # None /\ (rect[3] = 0 \/ rect[4] = 0))
        => mpc \notin {"l217", "l218", "l221", "l222", "l193", "l224"}

\* C7: the rectangle on_click hands to capture_screenshot has its left and top
\* at the smaller of the press and release coordinates and a width and height
\* that are the non-negative coordinate differences, whatever the direction
\* of the drag.
C7_RectIsBoundingBox ==
    rect # None =>
        LET p1 == start_pos
            p2 == end_pos
        IN  /\ rect[1] \in {p1[1], p2[1]} /\ rect[1] <= p1[1] /\ rect[1] <= p2[1]
            /\ rect[2] \in {p1[2], p2[2]} /\ rect[2] <= p1[2] /\ rect[2] <= p2[2]
            /\ rect[3] >= 0 /\ rect[3] \in {p2[1] - p1[1], p1[1] - p2[1]}
            /\ rect[4] >= 0 /\ rect[4] \in {p2[2] - p1[2], p1[2] - p2[2]}

\* capture_screenshot has been called for a drag up and to the left that ends
\* at the origin.
C7_Witness ==
    /\ mpc = "l213"
    /\ rect # None
    /\ end_pos = <<0, 0>>
    /\ start_pos[1] > 0
    /\ start_pos[2] > 0

\* The extension of a path: the case-folded characters after its last '.',
\* and none (the empty string) when the path holds no '.'.
HasDot(file_path) == \E i \in DOMAIN file_path : file_path[i] = "."
ExtensionOf(file_path) ==
    IF HasDot(file_path) THEN Lower(SplitLast(file_path)) ELSE <<>>

\* C8: Extract.extract routes a path with extension pdf to the document
\* branch, one with an image extension to the image branch, and raises the
\* unsupported-file-type error for every other path, whatever the letter case.
C8_DispatchOnExtension ==
    ex_called # "no call yet" =>
        LET ext == ExtensionOf(ex_path) IN
        /\ ext = <<"p","d","f">> => (ex_called = "PDFProcessing" /\ ~ex_raised)
        /\ ext \in VALID_FILE_EXTENTIONS \ {<<"p","d","f">>}
              => (ex_called = "ImageProcessing" /\ ~ex_raised)
        /\ ext \notin VALID_FILE_EXTENTIONS => (ex_raised /\ ex_called = "none")

\* C9: save_to_clipboard and save_to_txt called with empty text change neither
\* the clipboard nor any file and log a warning; capture_screenshot leaves the
\* clipboard alone up to the extraction, and when the extracted text is empty
\* it does not call save_to_clipboard and leaves the clipboard unchanged.
C9_EmptyTextNoOutput ==
    [][ /\ (mpc = "l193" /\ text = <<>>)
            => /\ clipboard' = clipboard
               /\ files' = files
               /\ log' = "WARNING No text to copy to clipboard."
        /\ (mpc = "l176" /\ text = <<>>)
            => /\ clipboard' = clipboard
               /\ files' = files
               /\ log' = "WARNING No text to save to file."
        /\ mpc \in {"l213", "l217", "l218", "l221"} => clipboard' = clipboard
        /\ (mpc = "l222" /\ text = <<>>)
            => /\ clipboard' = clipboard
               /\ mpc' # "l193" ]_vars

\* save_to_txt has just been called with empty text while the file and the
\* clipboard both held text written earlier, and both still hold it.
C9_Witness ==
    /\ log = "WARNING No text to save to file."
    /\ mpc = "idle"
    /\ files[EXTRACTED_TEXT_FILE_PATH] = <<"a">>
    /\ clipboard = <<"b", "c">>

\* C10: after on_activate has completed, a left-button press followed by a
\* left-button release invokes capture_screenshot.
C10_ActivationNotLost ==
    [][ (mpc = "l257" /\ pending = "pressed" /\ mpc' # mpc) => mpc' = "l213" ]_vars

====
